---------------------------- MODULE Spec2Model ----------------------------
(***************************************************************************)
(* Model of scripts/start.py: the local process supervisor.                *)
(*                                                                         *)
(*   SpecTerm  main()'s cleanup phase (lines 147-158): kill_pidfile for   *)
(*             every marker, kill_by_pattern for every pattern, and the    *)
(*             terminate_pid escalation they call.                         *)
(*   SpecMain  main() from configuration validation to its return:        *)
(*             start_process, the signal handler, the wait loop.           *)
(*   SpecTail  tail_file, one thread per log file, and the stop flag.      *)
(*   SpecStart main() from line 147 to its return: cleanup, then the rest. *)
(*   SpecRun   main() from line 293 on together with its tailer threads.   *)
(*                                                                         *)
(* Text (marker files, log files, pgrep output) is a sequence of           *)
(* one-character strings.  Time is counted in ticks of 0.1 s.              *)
(***************************************************************************)
EXTENDS Integers, Sequences, FiniteSets, TLC

VARIABLES
    markers,    \* PIDS: service name -> content of its marker file, or NoFile
    procs,      \* OS process table: pid -> "dead" | "alive" | "denied"
    cpc,        \* control point of the cleanup phase
    ci,         \* index of the marker / pattern the cleanup loop is at
    tokens,     \* kill_by_pattern: tokens of pgrep's output still to visit
    pid,        \* kill_pidfile's / terminate_pid's local `pid`
    elapsed,    \* terminate_pid: time.time() - start, in ticks
    exc,        \* exception that propagated out of main ("none" if none)
    g,          \* history of the current kill_pidfile / terminate_pid call
    stop,       \* stop_event
    files,      \* LOGS: service name -> content of its log file, or NoFile
    tpc,        \* control point of each tail_file thread
    pos,        \* tail_file: offset of `handle` (None before the file is open)
    line,       \* tail_file: local `line`
    out,        \* what each tailer wrote to sys.stdout, one entry per write
    th,         \* history of each tailer
    appended,   \* number of characters the writers have appended
    cfg,        \* the configuration main() reads (files and keys)
    mpc,        \* control point of main() from line 160 on
    newpid,     \* start_process: proc.pid of the process just spawned
    processes,  \* main's list `processes`: the pid of each Popen, in order
    reaped,     \* for each Popen, whether its returncode is set (exit observed)
    handlers,   \* the signals handle_signal is installed for
    hstack,     \* the running invocations of handle_signal, innermost last
    nsig,       \* number of signals delivered to the supervisor
    exitcode,   \* exit status of the supervisor (None while it runs)
    mh          \* history of the run

\* the variables of the cleanup phase alone
termVars == <<cpc, ci, tokens, pid, elapsed, exc, g>>

\* the variables of the tail_file threads alone
tailVars == <<files, tpc, pos, line, out, th, appended>>

\* the variables of main() from line 160 on alone
mainVars == <<cfg, mpc, newpid, processes, reaped, handlers, hstack, nsig,
              exitcode, mh>>

vars == <<markers, procs, cpc, ci, tokens, pid, elapsed, exc, g, stop,
          files, tpc, pos, line, out, th, appended,
          cfg, mpc, newpid, processes, reaped, handlers, hstack, nsig,
          exitcode, mh>>

-----------------------------------------------------------------------------
(* Bounds of the model *)

\* time.sleep(0.1) returns after 1..MaxSleep ticks (a sleep may overshoot)
MaxSleep == 2

\* the writers append at most this many characters to the log files in all
MaxAppend == 2

\* at most this many signals are delivered to the supervisor
MaxSignals == 2

-----------------------------------------------------------------------------
(* Program constants *)

\* terminate_pid's default timeout, 2.0 s, in ticks of 0.1 s
Timeout == 20

\* the service names in the order main() cleans them up
CleanupKeys == <<"website", "network", "auth">>

\* the patterns main() sweeps
Patterns == <<"nullspace-simulator", "nullspace-node", "start-local-network.sh",
              "tsx src/server.ts", "node .*vite", "vite">>

Names == {"network", "auth", "website"}

\* a path at which no file exists (no text holds this element)
NoFile == <<"NoFile">>

\* Python's None; an int n held by a variable that may be None is <<n>>
None == <<>>

-----------------------------------------------------------------------------
(* Text: str(), str.strip(), int(), str.isdigit(), str.split() *)

DigitChars == <<"0", "1", "2", "3", "4", "5", "6", "7", "8", "9">>

IsDigit(c) == \E i \in 1..10 : DigitChars[i] = c

DigitVal(c) == (CHOOSE i \in 1..10 : DigitChars[i] = c) - 1

IsSpace(c) == c \in {" ", "\n", "\t"}

RECURSIVE LStrip(_)
LStrip(s) == IF s # <<>> /\ IsSpace(Head(s)) THEN LStrip(Tail(s)) ELSE s

RECURSIVE RStrip(_)
RStrip(s) ==
    IF s # <<>> /\ IsSpace(s[Len(s)]) THEN RStrip(SubSeq(s, 1, Len(s) - 1)) ELSE s

\* str.strip()
Strip(s) == RStrip(LStrip(s))

\* str.isdigit(): non-empty and every character a digit
IsDigits(s) == s # <<>> /\ \A i \in 1..Len(s) : IsDigit(s[i])

RECURSIVE DigitsVal(_)
DigitsVal(s) ==
    IF s = <<>> THEN 0
    ELSE 10 * DigitsVal(SubSeq(s, 1, Len(s) - 1)) + DigitVal(s[Len(s)])

\* the unsigned part of an int() literal
Unsigned(s) == IF s # <<>> /\ Head(s) \in {"+", "-"} THEN Tail(s) ELSE s

\* int(s) succeeds: optional sign, then decimal digits (int() strips whitespace itself)
IsInt(s) == IsDigits(Unsigned(Strip(s)))

\* int(s), for IsInt(s)
ParseInt(s) ==
    LET t == Strip(s)
    IN  IF t # <<>> /\ Head(t) = "-" THEN 0 - DigitsVal(Unsigned(t))
        ELSE DigitsVal(Unsigned(t))

RECURSIVE NatStr(_)
NatStr(n) ==
    IF n < 10 THEN <<DigitChars[n + 1]>>
    ELSE NatStr(n \div 10) \o <<DigitChars[(n % 10) + 1]>>

\* str(n)
Str(n) == IF n < 0 THEN <<"-">> \o NatStr(0 - n) ELSE NatStr(n)

-----------------------------------------------------------------------------
(* The operating system: process table and os.kill *)

\* the process identifiers of the model's process table
Pids == {7, 12, 305}

\* process group of each process
Pgid == [q \in Pids |-> IF q = 12 THEN 7 ELSE q]

States == {"dead", "alive", "denied"}

\* kill(2): the processes a pid argument addresses
Targets(p) ==
    IF p > 0 THEN {q \in Pids : q = p}
    ELSE IF p = -1 THEN Pids
    ELSE {q \in Pids : Pgid[q] = 0 - p}

Existing(p) == {q \in Targets(p) : procs[q] # "dead"}

Permitted(p) == {q \in Targets(p) : procs[q] = "alive"}

\* os.kill(p, sig): "ok", or the exception it raises
KillResult(p) ==
    IF Existing(p) = {} THEN "ProcessLookupError"
    ELSE IF Permitted(p) = {} THEN "PermissionError"
    ELSE "ok"

\* the process table after a successful os.kill(p, SIGKILL)
Killed(p) == [q \in Pids |-> IF q \in Permitted(p) THEN "dead" ELSE procs[q]]

\* pid_exists(pid[1])
pid_exists(p) ==
    CASE KillResult(p) = "ok" -> TRUE
      [] KillResult(p) = "ProcessLookupError" -> FALSE
      [] KillResult(p) = "PermissionError" -> TRUE

-----------------------------------------------------------------------------
(* pgrep -f and str.split() *)

RECURSIVE SplitFrom(_, _)
SplitFrom(s, cur) ==
    IF s = <<>> THEN (IF cur = <<>> THEN <<>> ELSE <<cur>>)
    ELSE IF IsSpace(Head(s))
         THEN (IF cur = <<>> THEN <<>> ELSE <<cur>>) \o SplitFrom(Tail(s), <<>>)
         ELSE SplitFrom(Tail(s), Append(cur, Head(s)))

\* str.split(): the whitespace-separated tokens
Split(s) == SplitFrom(s, <<>>)

SetMin(S) == CHOOSE x \in S : \A y \in S : x <= y

RECURSIVE PgrepStdout(_)
\* pgrep's output for the matching set M: one pid per line, ascending
PgrepStdout(M) ==
    IF M = {} THEN <<>>
    ELSE Str(SetMin(M)) \o <<"\n">> \o PgrepStdout(M \ {SetMin(M)})

-----------------------------------------------------------------------------
(* Cleanup phase: main() lines 147-158 *)

NKeys == Len(CleanupKeys)

NSteps == Len(CleanupKeys) + Len(Patterns)

\* the marker the cleanup loop is at
Key == CleanupKeys[ci]

MarkerContents ==
    { NoFile, <<"7">>, <<"1", "2", "\n">>, <<"x">>, <<"0">>, <<"-", "7">> }

\* th[n] at the start of a tailer: base, the length of the file when the tailer
\* sought to its end; after, the writes to sys.stdout made after the stop flag was
\* set; waiting, the tailer was waiting for its file when the stop flag was set
TH0 == [base |-> 0, after |-> 0, waiting |-> FALSE]

\* no live process has identifier n
NotAlive(n) == \A q \in Pids : q = n => procs[q] = "dead"

\* g at the start of a call: existed, the marker existed when kill_pidfile was
\* called; stale, it held the identifier of a process that was not alive; probe,
\* the result of terminate_pid's first probe; sent, the signals terminate_pid
\* sent; sawDead, a poll of the wait loop found the target gone; looped, the wait
\* loop was entered
G0 == [existed |-> FALSE, stale |-> FALSE, probe |-> "none", sent |-> <<>>,
       sawDead |-> FALSE, looped |-> FALSE]

\* mh at the start of a run, indexed like `processes`: treq and kreq count the
\* calls of proc.terminate() and proc.kill(); tsig and ksig count the SIGTERM and
\* SIGKILL signals they sent; wrote, the services whose marker this run wrote;
\* prev, what the marker start_process has just written held before (None once
\* start_process has returned to main's next statement); handled, the invocations
\* of handle_signal; defaulted, a signal met its default disposition; started,
\* the calls of start_process
MH0 == [treq |-> <<0, 0, 0>>, kreq |-> <<0, 0, 0>>, tsig |-> <<0, 0, 0>>,
        ksig |-> <<0, 0, 0>>, wrote |-> {}, prev |-> None, handled |-> 0,
        defaulted |-> FALSE, started |-> 0]

\* a complete configuration
CfgOk == [envfile |-> "local", vite_identity |-> "v", convex_url |-> "v",
          convex_admin_key |-> "v", service_token |-> "v", stripe_secret |-> "v",
          stripe_webhook |-> "v", node0 |-> TRUE]

\* main() is not running
InitMainIdle ==
    /\ cfg = CfgOk
    /\ mpc = "exited"
    /\ newpid = None
    /\ processes = <<>>
    /\ reaped = <<>>
    /\ handlers = {}
    /\ hstack = <<>>
    /\ nsig = 0
    /\ exitcode = None
    /\ mh = MH0

\* the tailers are not running
InitTailIdle ==
    /\ stop = FALSE
    /\ files = [n \in Names |-> NoFile]
    /\ tpc = [n \in Names |-> "done"]
    /\ pos = [n \in Names |-> None]
    /\ line = [n \in Names |-> <<>>]
    /\ out = [n \in Names |-> <<>>]
    /\ th = [n \in Names |-> TH0]
    /\ appended = 0
    /\ InitMainIdle

InitTerm ==
    /\ markers \in [Names -> MarkerContents]
    /\ procs \in [Pids -> States]
    /\ cpc = "cl_pidfile"
    /\ ci = 1
    /\ tokens = <<>>
    /\ pid = None
    /\ elapsed = 0
    /\ exc = "none"
    /\ g = G0
    /\ InitTailIdle

\* an exception leaves terminate_pid, its caller and main: nothing catches it
Raise(e) ==
    /\ cpc' = "cl_raised"
    /\ exc' = e

\* terminate_pid returns to kill_pidfile (line 92) or kill_by_pattern (line 108)
ReturnPoint == IF ci <= NKeys THEN "kp_unlink" ELSE "bp_token"

TpReturn == cpc' = ReturnPoint

\* kill_pidfile lines 84-85, called from line 149
KpExists ==
    /\ cpc = "cl_pidfile"
    /\ cpc' = IF markers[Key] = NoFile THEN "cl_next" ELSE "kp_read"
    /\ g' = [G0 EXCEPT !.existed = markers[Key] # NoFile,
                       !.stale = /\ markers[Key] # NoFile
                                 /\ IsInt(Strip(markers[Key]))
                                 /\ ParseInt(Strip(markers[Key])) > 0
                                 /\ NotAlive(ParseInt(Strip(markers[Key])))]
    /\ pid' = None
    /\ UNCHANGED <<markers, procs, ci, tokens, elapsed, exc>>
    /\ UNCHANGED <<stop, tailVars, mainVars>>

\* kill_pidfile without the except clause of lines 88-89
KpRead_NoCatch ==
    /\ cpc = "kp_read"
    /\ IF IsInt(Strip(markers[Key]))
       THEN /\ pid' = <<ParseInt(Strip(markers[Key]))>>
            /\ cpc' = IF pid' # <<0>> THEN "tp_probe" ELSE "kp_unlink"
            /\ UNCHANGED exc
       ELSE /\ Raise("ValueError")
            /\ UNCHANGED pid
    /\ UNCHANGED <<markers, procs, ci, tokens, elapsed, g>>
    /\ UNCHANGED <<stop, tailVars, mainVars>>

\* kill_pidfile lines 86-91
KpRead ==
    /\ cpc = "kp_read"
    /\ pid' = IF IsInt(Strip(markers[Key])) THEN <<ParseInt(Strip(markers[Key]))>>
              ELSE None
    /\ cpc' = IF pid' # None /\ pid' # <<0>> THEN "tp_probe" ELSE "kp_unlink"
    /\ UNCHANGED <<markers, procs, ci, tokens, elapsed, exc, g>>
    /\ UNCHANGED <<stop, tailVars, mainVars>>

\* terminate_pid without the early return of lines 66-67
TpProbe_NoCheck ==
    /\ cpc = "tp_probe"
    /\ cpc' = "tp_term"
    /\ g' = [g EXCEPT !.probe = IF pid_exists(pid[1]) THEN "alive" ELSE "dead"]
    /\ UNCHANGED <<markers, procs, ci, tokens, pid, elapsed, exc>>
    /\ UNCHANGED <<stop, tailVars, mainVars>>

\* terminate_pid lines 66-67
TpProbe ==
    /\ cpc = "tp_probe"
    /\ IF pid_exists(pid[1])
       THEN /\ cpc' = "tp_term"
            /\ g' = [g EXCEPT !.probe = "alive"]
       ELSE /\ TpReturn
            /\ g' = [g EXCEPT !.probe = "dead"]
    /\ UNCHANGED <<markers, procs, ci, tokens, pid, elapsed, exc>>
    /\ UNCHANGED <<stop, tailVars, mainVars>>

\* terminate_pid lines 68-72
TpTerm ==
    /\ cpc = "tp_term"
    /\ CASE KillResult(pid[1]) = "ok" ->
              /\ cpc' = "tp_loop"
              /\ g' = [g EXCEPT !.sent = Append(@, "SIGTERM")]
              /\ elapsed' = 0
              /\ UNCHANGED exc
         [] KillResult(pid[1]) = "ProcessLookupError" ->
              /\ TpReturn
              /\ UNCHANGED <<g, elapsed, exc>>
         [] KillResult(pid[1]) = "PermissionError" ->
              /\ Raise("PermissionError")
              /\ UNCHANGED <<g, elapsed>>
    /\ UNCHANGED <<markers, procs, ci, tokens, pid>>
    /\ UNCHANGED <<stop, tailVars, mainVars>>

\* terminate_pid with the wait loop of line 73 never entered
TpLoop_NoWait ==
    /\ cpc = "tp_loop"
    /\ cpc' = "tp_kill"
    /\ UNCHANGED <<markers, procs, ci, tokens, pid, elapsed, exc, g>>
    /\ UNCHANGED <<stop, tailVars, mainVars>>

\* terminate_pid line 73
TpLoop ==
    /\ cpc = "tp_loop"
    /\ cpc' = IF elapsed < Timeout THEN "tp_poll" ELSE "tp_kill"
    /\ g' = [g EXCEPT !.looped = @ \/ elapsed < Timeout]
    /\ UNCHANGED <<markers, procs, ci, tokens, pid, elapsed, exc>>
    /\ UNCHANGED <<stop, tailVars, mainVars>>

\* terminate_pid lines 74-75
TpPoll ==
    /\ cpc = "tp_poll"
    /\ IF ~pid_exists(pid[1])
       THEN /\ TpReturn
            /\ g' = [g EXCEPT !.sawDead = TRUE]
       ELSE /\ cpc' = "tp_sleep"
            /\ UNCHANGED g
    /\ UNCHANGED <<markers, procs, ci, tokens, pid, elapsed, exc>>
    /\ UNCHANGED <<stop, tailVars, mainVars>>

\* terminate_pid line 76
TpSleep ==
    /\ cpc = "tp_sleep"
    /\ \E d \in 1..MaxSleep : elapsed' = elapsed + d
    /\ cpc' = "tp_loop"
    /\ UNCHANGED <<markers, procs, ci, tokens, pid, exc, g>>
    /\ UNCHANGED <<stop, tailVars, mainVars>>

\* terminate_pid returning at the timeout without the forced kill
TpKill_Skip ==
    /\ cpc = "tp_kill"
    /\ TpReturn
    /\ UNCHANGED <<markers, procs, ci, tokens, pid, elapsed, exc, g>>
    /\ UNCHANGED <<stop, tailVars, mainVars>>

\* terminate_pid lines 77-80
TpKill ==
    /\ cpc = "tp_kill"
    /\ CASE KillResult(pid[1]) = "ok" ->
              /\ procs' = Killed(pid[1])
              /\ g' = [g EXCEPT !.sent = Append(@, "SIGKILL")]
              /\ TpReturn
              /\ UNCHANGED exc
         [] KillResult(pid[1]) = "ProcessLookupError" ->
              /\ TpReturn
              /\ UNCHANGED <<procs, g, exc>>
         [] KillResult(pid[1]) = "PermissionError" ->
              /\ Raise("PermissionError")
              /\ UNCHANGED <<procs, g>>
    /\ UNCHANGED <<markers, ci, tokens, pid, elapsed>>
    /\ UNCHANGED <<stop, tailVars, mainVars>>

\* kill_pidfile returning without the unlink
KpUnlink_Forget ==
    /\ cpc = "kp_unlink"
    /\ cpc' = "cl_next"
    /\ UNCHANGED <<markers, procs, ci, tokens, pid, elapsed, exc, g>>
    /\ UNCHANGED <<stop, tailVars, mainVars>>

\* kill_pidfile lines 92-95
KpUnlink ==
    /\ cpc = "kp_unlink"
    /\ markers' = [markers EXCEPT ![Key] = NoFile]
    /\ cpc' = "cl_next"
    /\ UNCHANGED <<procs, ci, tokens, pid, elapsed, exc, g>>
    /\ UNCHANGED <<stop, tailVars, mainVars>>

\* the output of pgrep -f: the exit status and stdout of a run on a non-empty
\* match set M, "nomatch" (status 1), "error" (status 2 or 3), or "missing"
\* (no pgrep binary: subprocess.run raises FileNotFoundError)
\* kill_by_pattern lines 99-107, called from line 158
BpPgrep ==
    /\ cpc = "bp_pgrep"
    /\ \/ /\ Raise("FileNotFoundError")
          /\ UNCHANGED tokens
       \/ /\ cpc' = "cl_next"
          /\ UNCHANGED <<tokens, exc>>
       \/ \E M \in SUBSET {q \in Pids : procs[q] # "dead"} :
            /\ M # {}
            /\ tokens' = Split(PgrepStdout(M))
            /\ cpc' = "bp_token"
            /\ UNCHANGED exc
    /\ g' = G0
    /\ UNCHANGED <<markers, procs, ci, pid, elapsed>>
    /\ UNCHANGED <<stop, tailVars, mainVars>>

\* kill_by_pattern lines 108-111
BpToken ==
    /\ cpc = "bp_token"
    /\ IF tokens = <<>>
       THEN /\ cpc' = "cl_next"
            /\ UNCHANGED <<tokens, pid, g>>
       ELSE /\ tokens' = Tail(tokens)
            /\ IF ~IsDigits(Head(tokens))
               THEN UNCHANGED <<cpc, pid, g>>
               ELSE /\ pid' = <<ParseInt(Head(tokens))>>
                    /\ g' = G0
                    /\ cpc' = "tp_probe"
    /\ UNCHANGED <<markers, procs, ci, elapsed, exc>>
    /\ UNCHANGED <<stop, tailVars, mainVars>>

\* the for loop of line 150 left after the key loop, with no pattern swept
ClNext_SkipSweep ==
    /\ cpc = "cl_next"
    /\ ci' = ci + 1
    /\ cpc' = IF ci + 1 <= NKeys THEN "cl_pidfile" ELSE "cl_done"
    /\ UNCHANGED <<markers, procs, tokens, pid, elapsed, exc, g>>
    /\ UNCHANGED <<stop, tailVars, mainVars>>

\* the for loops of lines 148 and 150 advance; after the last pattern, line 160
ClNext ==
    /\ cpc = "cl_next"
    /\ ci' = ci + 1
    /\ cpc' = IF ci + 1 <= NKeys THEN "cl_pidfile"
              ELSE IF ci + 1 <= NSteps THEN "bp_pgrep"
              ELSE "cl_done"
    /\ UNCHANGED <<markers, procs, tokens, pid, elapsed, exc, g>>
    /\ UNCHANGED <<stop, tailVars, mainVars>>

\* a process exits (on its own, or because it was asked to)
ProcExit ==
    /\ cpc \notin {"cl_done", "cl_raised"}
    /\ \E q \in Pids :
         /\ procs[q] # "dead"
         /\ procs' = [procs EXCEPT ![q] = "dead"]
    /\ UNCHANGED <<markers, cpc, ci, tokens, pid, elapsed, exc, g>>
    /\ UNCHANGED <<stop, tailVars, mainVars>>

NextTerm ==
    \/ KpExists
    \/ KpRead
    \/ TpProbe
    \/ TpTerm
    \/ TpLoop
    \/ TpPoll
    \/ TpSleep
    \/ TpKill
    \/ KpUnlink
    \/ BpPgrep
    \/ BpToken
    \/ ClNext
    \/ ProcExit

SpecTerm == InitTerm /\ [][NextTerm]_vars

-----------------------------------------------------------------------------
(* terminate_pid alone: one call, on any identifier and any process table *)

\* the identifiers terminate_pid is called with: every process of the table, a
\* process group, and an identifier no process has
TpInputs == Pids \cup {-7, 99}

InitTp ==
    /\ markers = [n \in Names |-> NoFile]
    /\ procs \in [Pids -> States]
    /\ cpc = "tp_probe"
    /\ ci = 1
    /\ tokens = <<>>
    /\ pid \in {<<p>> : p \in TpInputs}
    /\ elapsed = 0
    /\ exc = "none"
    /\ g = G0
    /\ InitTailIdle

\* the steps of terminate_pid
StepTp == TpProbe \/ TpTerm \/ TpLoop \/ TpPoll \/ TpSleep \/ TpKill

NextTp ==
    \/ TpProbe
    \/ TpTerm
    \/ TpLoop
    \/ TpPoll
    \/ TpSleep
    \/ TpKill
    \/ ProcExit

SpecTp == InitTp /\ [][NextTp]_vars

\* the interpreter keeps running: a step of terminate_pid that can be taken is taken
FairSpecTp == SpecTp /\ WF_vars(StepTp)

-----------------------------------------------------------------------------
(* tail_file: one thread per log file (lines 122-135, started at lines 294-297) *)

\* what the writers append, one character at a time
LogChars == {"a", "\n"}

\* the log files when the tailers start
InitLogs == { NoFile, <<>>, <<"a">>, <<"a", "\n">> }

\* the positions of the newlines of text t
Newlines(t) == {i \in 1..Len(t) : t[i] = "\n"}

\* handle.readline() at offset p of file content f: the text up to and including
\* the next newline, or up to the end of the file when there is none ("" at the end)
ReadLine(f, p) ==
    LET rest == SubSeq(f, p + 1, Len(f))
    IN  IF Newlines(rest) = {} THEN rest
        ELSE SubSeq(rest, 1, SetMin(Newlines(rest)))

RECURSIVE Concat(_)
\* the texts of a sequence of writes, joined
Concat(ws) == IF ws = <<>> THEN <<>> ELSE Head(ws).text \o Concat(Tail(ws))

\* the tailer threads the model runs: main() starts one per entry of LOGS; the
\* threads share nothing but stop_event, and two of the three are modelled
Tailers == {"network", "auth"}

InitTail ==
    /\ markers = [n \in Names |-> NoFile]
    /\ procs = [q \in Pids |-> "dead"]
    /\ cpc = "cl_done"
    /\ ci = 1
    /\ tokens = <<>>
    /\ pid = None
    /\ elapsed = 0
    /\ exc = "none"
    /\ g = G0
    /\ stop = FALSE
    /\ files \in [Names -> InitLogs]
    /\ \A n \in Names \ Tailers : files[n] = NoFile
    /\ tpc = [n \in Names |-> IF n \in Tailers THEN "w_exists" ELSE "done"]
    /\ pos = [n \in Names |-> None]
    /\ line = [n \in Names |-> <<>>]
    /\ out = [n \in Names |-> <<>>]
    /\ th = [n \in Names |-> TH0]
    /\ appended = 0
    /\ InitMainIdle

\* line 123, `not path.exists()`: when the file exists the loop ends without
\* reading the stop flag
TWaitExists(n) ==
    /\ tpc[n] = "w_exists"
    /\ tpc' = [tpc EXCEPT ![n] = IF files[n] # NoFile THEN "chk" ELSE "w_stop"]
    /\ UNCHANGED <<files, pos, line, out, th, stop, appended>>
    /\ UNCHANGED <<markers, procs, termVars, mainVars>>

\* line 123, `not stop_event.is_set()`
TWaitStop(n) ==
    /\ tpc[n] = "w_stop"
    /\ tpc' = [tpc EXCEPT ![n] = IF stop THEN "chk" ELSE "w_sleep"]
    /\ UNCHANGED <<files, pos, line, out, th, stop, appended>>
    /\ UNCHANGED <<markers, procs, termVars, mainVars>>

\* line 124
TWaitSleep(n) ==
    /\ tpc[n] = "w_sleep"
    /\ tpc' = [tpc EXCEPT ![n] = "w_exists"]
    /\ UNCHANGED <<files, pos, line, out, th, stop, appended>>
    /\ UNCHANGED <<markers, procs, termVars, mainVars>>

\* lines 125-126
TCheck(n) ==
    /\ tpc[n] = "chk"
    /\ tpc' = [tpc EXCEPT ![n] = IF stop THEN "done" ELSE "open"]
    /\ UNCHANGED <<files, pos, line, out, th, stop, appended>>
    /\ UNCHANGED <<markers, procs, termVars, mainVars>>

\* tail_file without the seek of line 128: reading starts at offset 0
TOpen_NoSeek(n) ==
    /\ tpc[n] = "open"
    /\ pos' = [pos EXCEPT ![n] = <<0>>]
    /\ th' = [th EXCEPT ![n].base = Len(files[n])]
    /\ tpc' = [tpc EXCEPT ![n] = "loop"]
    /\ UNCHANGED <<files, line, out, stop, appended>>
    /\ UNCHANGED <<markers, procs, termVars, mainVars>>

\* lines 127-128: open the file and seek to its end
TOpen(n) ==
    /\ tpc[n] = "open"
    /\ pos' = [pos EXCEPT ![n] = <<Len(files[n])>>]
    /\ th' = [th EXCEPT ![n].base = Len(files[n])]
    /\ tpc' = [tpc EXCEPT ![n] = "loop"]
    /\ UNCHANGED <<files, line, out, stop, appended>>
    /\ UNCHANGED <<markers, procs, termVars, mainVars>>

\* tail_file looking at the stop flag only when the last read found nothing
TLoop_Lazy(n) ==
    /\ tpc[n] = "loop"
    /\ tpc' = [tpc EXCEPT ![n] = IF stop /\ line[n] = <<>> THEN "done" ELSE "read"]
    /\ UNCHANGED <<files, pos, line, out, th, stop, appended>>
    /\ UNCHANGED <<markers, procs, termVars, mainVars>>

\* line 129; leaving the loop leaves the with block and returns
TLoop(n) ==
    /\ tpc[n] = "loop"
    /\ tpc' = [tpc EXCEPT ![n] = IF stop THEN "done" ELSE "read"]
    /\ UNCHANGED <<files, pos, line, out, th, stop, appended>>
    /\ UNCHANGED <<markers, procs, termVars, mainVars>>

\* lines 130-131
TRead(n) ==
    /\ tpc[n] = "read"
    /\ line' = [line EXCEPT ![n] = ReadLine(files[n], pos[n][1])]
    /\ pos' = [pos EXCEPT ![n] = <<pos[n][1] + Len(line'[n])>>]
    /\ tpc' = [tpc EXCEPT ![n] = IF line'[n] # <<>> THEN "emit" ELSE "idle"]
    /\ UNCHANGED <<files, out, th, stop, appended>>
    /\ UNCHANGED <<markers, procs, termVars, mainVars>>

\* lines 132-133: one write of the prefix and the line
TEmit(n) ==
    /\ tpc[n] = "emit"
    /\ out' = [out EXCEPT ![n] = Append(@, [prefix |-> n, text |-> line[n]])]
    /\ th' = [th EXCEPT ![n].after = IF stop THEN @ + 1 ELSE @]
    /\ tpc' = [tpc EXCEPT ![n] = "loop"]
    /\ UNCHANGED <<files, pos, line, stop, appended>>
    /\ UNCHANGED <<markers, procs, termVars, mainVars>>

\* line 135
TIdle(n) ==
    /\ tpc[n] = "idle"
    /\ tpc' = [tpc EXCEPT ![n] = "loop"]
    /\ UNCHANGED <<files, pos, line, out, th, stop, appended>>
    /\ UNCHANGED <<markers, procs, termVars, mainVars>>

\* a step of the tailer of n
TStep(n) ==
    \/ TWaitExists(n) \/ TWaitStop(n) \/ TWaitSleep(n) \/ TCheck(n) \/ TOpen(n)
    \/ TLoop(n) \/ TRead(n) \/ TEmit(n) \/ TIdle(n)

\* start_process line 116 creates the log file of a service
LogCreate ==
    /\ \E n \in Tailers :
         /\ files[n] = NoFile
         /\ files' = [files EXCEPT ![n] = <<>>]
    /\ UNCHANGED <<tpc, pos, line, out, th, stop, appended>>
    /\ UNCHANGED <<markers, procs, termVars, mainVars>>

\* a service writes to its log file
LogAppend ==
    /\ appended < MaxAppend
    /\ appended' = appended + 1
    /\ \E n \in Tailers, c \in LogChars :
         /\ files[n] # NoFile
         /\ files' = [files EXCEPT ![n] = Append(@, c)]
    /\ UNCHANGED <<tpc, pos, line, out, th, stop>>
    /\ UNCHANGED <<markers, procs, termVars, mainVars>>

\* stop_event.set(), line 282 or line 306
SetStop ==
    /\ ~stop
    /\ stop' = TRUE
    /\ th' = [n \in Names |->
                [th[n] EXCEPT !.waiting = tpc[n] \in {"w_exists", "w_stop", "w_sleep"}]]
    /\ UNCHANGED <<files, tpc, pos, line, out, appended>>
    /\ UNCHANGED <<markers, procs, termVars, mainVars>>

NextTail ==
    \/ \E n \in Tailers : TWaitExists(n)
    \/ \E n \in Tailers : TWaitStop(n)
    \/ \E n \in Tailers : TWaitSleep(n)
    \/ \E n \in Tailers : TCheck(n)
    \/ \E n \in Tailers : TOpen(n)
    \/ \E n \in Tailers : TLoop(n)
    \/ \E n \in Tailers : TRead(n)
    \/ \E n \in Tailers : TEmit(n)
    \/ \E n \in Tailers : TIdle(n)
    \/ LogCreate
    \/ LogAppend
    \/ SetStop

SpecTail == InitTail /\ [][NextTail]_vars

\* every started thread keeps being scheduled
FairSpecTail == SpecTail /\ \A n \in Tailers : WF_vars(TStep(n))

-----------------------------------------------------------------------------
(* main() from line 160 on: validation, start_process, handle_signal, wait loop *)

\* the services in the order main() starts them (lines 255-277)
Services == <<"network", "auth", "website">>

\* what main() finds: envfile, which of website/.env.local ("local") and
\* configs/local/.env.local ("fallback") exists; for each required key the value
\* dict.get(key, "") yields; node0, whether node0.yaml exists
CfgInputs ==
    [envfile : {"local", "fallback", "none"},
     vite_identity : {"", "v"}, convex_url : {"", "v"}, convex_admin_key : {"", "v"},
     service_token : {"", "v"}, stripe_secret : {"", "v"}, stripe_webhook : {"", "v"},
     node0 : BOOLEAN]

\* the marker files a run may find at line 160 (another run may have written one)
MainMarkers == { NoFile, <<"9", "9", "9", "\n">> }

\* the variables main() from line 160 on leaves alone
mainOther == <<termVars, pos, line, out, th, appended>>

InitMain ==
    /\ markers \in [Names -> MainMarkers]
    /\ procs = [q \in Pids |-> "dead"]
    /\ cpc = "cl_done"
    /\ ci = 1
    /\ tokens = <<>>
    /\ pid = None
    /\ elapsed = 0
    /\ exc = "none"
    /\ g = G0
    /\ stop = FALSE
    /\ files = [n \in Names |-> NoFile]
    /\ tpc = [n \in Names |-> "done"]
    /\ pos = [n \in Names |-> None]
    /\ line = [n \in Names |-> <<>>]
    /\ out = [n \in Names |-> <<>>]
    /\ th = [n \in Names |-> TH0]
    /\ appended = 0
    /\ cfg \in CfgInputs
    /\ mpc = "m_envlocal"
    /\ newpid = None
    /\ processes = <<>>
    /\ reaped = <<>>
    /\ handlers = {}
    /\ hstack = <<>>
    /\ nsig = 0
    /\ exitcode = None
    /\ mh = MH0

\* main() runs its own code: it has not exited and no handler invocation is running
MainRuns == mpc # "exited" /\ hstack = <<>>

\* the supervisor exits with status code: return, sys.exit, an uncaught exception,
\* or death by a signal
Exit(code) ==
    /\ mpc' = "exited"
    /\ exitcode' = <<code>>

\* line 160, ensure_website_env_local (lines 38-48)
MEnvLocal ==
    /\ MainRuns /\ mpc = "m_envlocal"
    /\ IF cfg.envfile = "none"
       THEN Exit(1) /\ UNCHANGED cfg
       ELSE /\ mpc' = "m_cfg1"
            /\ cfg' = [cfg EXCEPT !.envfile = "local"]
            /\ UNCHANGED exitcode
    /\ UNCHANGED <<markers, procs, stop, files, tpc, newpid, processes, reaped,
                   handlers, hstack, nsig, mh, mainOther>>

\* lines 161-169
MCfg1 ==
    /\ MainRuns /\ mpc = "m_cfg1"
    /\ IF cfg.vite_identity = ""
       THEN Exit(1)
       ELSE mpc' = "m_cfg2" /\ UNCHANGED exitcode
    /\ UNCHANGED <<markers, procs, stop, files, tpc, cfg, newpid, processes, reaped,
                   handlers, hstack, nsig, mh, mainOther>>

\* lines 170-172
MCfg2 ==
    /\ MainRuns /\ mpc = "m_cfg2"
    /\ IF cfg.convex_url = "" \/ cfg.convex_admin_key = ""
       THEN Exit(1)
       ELSE mpc' = "m_cfg3" /\ UNCHANGED exitcode
    /\ UNCHANGED <<markers, procs, stop, files, tpc, cfg, newpid, processes, reaped,
                   handlers, hstack, nsig, mh, mainOther>>

\* the check of lines 177-179 without STRIPE_WEBHOOK_SECRET
MCfg3_Partial ==
    /\ MainRuns /\ mpc = "m_cfg3"
    /\ IF cfg.service_token = "" \/ cfg.stripe_secret = ""
       THEN Exit(1)
       ELSE mpc' = "m_cfg4" /\ UNCHANGED exitcode
    /\ UNCHANGED <<markers, procs, stop, files, tpc, cfg, newpid, processes, reaped,
                   handlers, hstack, nsig, mh, mainOther>>

\* lines 174-179
MCfg3 ==
    /\ MainRuns /\ mpc = "m_cfg3"
    /\ IF cfg.service_token = "" \/ cfg.stripe_secret = "" \/ cfg.stripe_webhook = ""
       THEN Exit(1)
       ELSE mpc' = "m_cfg4" /\ UNCHANGED exitcode
    /\ UNCHANGED <<markers, procs, stop, files, tpc, cfg, newpid, processes, reaped,
                   handlers, hstack, nsig, mh, mainOther>>

\* lines 181-184
MCfg4 ==
    /\ MainRuns /\ mpc = "m_cfg4"
    /\ IF ~cfg.node0
       THEN Exit(1)
       ELSE mpc' = "m_convex" /\ UNCHANGED exitcode
    /\ UNCHANGED <<markers, procs, stop, files, tpc, cfg, newpid, processes, reaped,
                   handlers, hstack, nsig, mh, mainOther>>

\* lines 186-254: the docker and npx commands succeed
MConvex ==
    /\ MainRuns /\ mpc = "m_convex"
    /\ mpc' = "sp_open"
    /\ UNCHANGED <<markers, procs, stop, files, tpc, cfg, newpid, processes, reaped,
                   handlers, hstack, nsig, exitcode, mh, mainOther>>

\* lines 186-224: one of the commands fails and run() raises CalledProcessError
MConvexFail ==
    /\ MainRuns /\ mpc = "m_convex"
    /\ Exit(1)
    /\ UNCHANGED <<markers, procs, stop, files, tpc, cfg, newpid, processes, reaped,
                   handlers, hstack, nsig, mh, mainOther>>

\* the service start_process is called for
Svc == Services[Len(processes) + 1]

\* start_process lines 115-116, called from lines 255, 262, 270
SpOpen ==
    /\ MainRuns /\ mpc = "sp_open"
    /\ files' = [files EXCEPT ![Svc] = IF @ = NoFile THEN <<>> ELSE @]
    /\ mh' = [mh EXCEPT !.started = @ + 1]
    /\ mpc' = "sp_popen"
    /\ UNCHANGED <<markers, procs, stop, tpc, cfg, newpid, processes, reaped,
                   handlers, hstack, nsig, exitcode, mainOther>>

\* the identifiers no process holds: a child main() has started keeps its
\* identifier until its exit is observed, even when it has exited
FreePids == {q \in Pids : procs[q] = "dead" /\ \A i \in 1..Len(processes) : processes[i] # q}

\* start_process line 117: the process is spawned. main() treats all identifiers
\* alike, so the kernel is taken to hand out the lowest free one.
SpPopen ==
    /\ MainRuns /\ mpc = "sp_popen"
    /\ \E q \in FreePids :
         /\ \A r \in FreePids : q <= r
         /\ procs' = [procs EXCEPT ![q] = "alive"]
         /\ newpid' = <<q>>
    /\ mpc' = "sp_write"
    /\ UNCHANGED <<markers, stop, files, tpc, cfg, processes, reaped,
                   handlers, hstack, nsig, exitcode, mh, mainOther>>

\* start_process line 117: Popen raises (no such command, no permission); nothing
\* catches it
SpPopenFail ==
    /\ MainRuns /\ mpc = "sp_popen"
    /\ Exit(1)
    /\ UNCHANGED <<markers, procs, stop, files, tpc, cfg, newpid, processes, reaped,
                   handlers, hstack, nsig, mh, mainOther>>

\* start_process appending to the marker instead of replacing its content
SpWrite_Append ==
    /\ MainRuns /\ mpc = "sp_write"
    /\ markers' = [markers EXCEPT ![Svc] = IF @ = NoFile THEN Str(newpid[1])
                                           ELSE @ \o Str(newpid[1])]
    /\ mh' = [mh EXCEPT !.wrote = @ \cup {Svc}, !.prev = markers[Svc]]
    /\ mpc' = "sp_append"
    /\ UNCHANGED <<procs, stop, files, tpc, cfg, newpid, processes, reaped,
                   handlers, hstack, nsig, exitcode, mainOther>>

\* start_process line 118: write_text replaces the content of the marker
SpWrite ==
    /\ MainRuns /\ mpc = "sp_write"
    /\ markers' = [markers EXCEPT ![Svc] = Str(newpid[1])]
    /\ mh' = [mh EXCEPT !.wrote = @ \cup {Svc}, !.prev = markers[Svc]]
    /\ mpc' = "sp_append"
    /\ UNCHANGED <<procs, stop, files, tpc, cfg, newpid, processes, reaped,
                   handlers, hstack, nsig, exitcode, mainOther>>

\* start_process line 119 and processes.append (lines 255, 262, 270)
SpAppend ==
    /\ MainRuns /\ mpc = "sp_append"
    /\ processes' = Append(processes, newpid[1])
    /\ reaped' = Append(reaped, FALSE)
    /\ mpc' = IF Len(processes) + 1 < Len(Services) THEN "sp_open" ELSE "m_sigint"
    /\ mh' = [mh EXCEPT !.prev = None]
    /\ UNCHANGED <<markers, procs, stop, files, tpc, cfg, newpid,
                   handlers, hstack, nsig, exitcode, mainOther>>

\* lines 279-290
MSigInt ==
    /\ MainRuns /\ mpc = "m_sigint"
    /\ stop' = FALSE
    /\ handlers' = handlers \cup {"SIGINT"}
    /\ mpc' = "m_sigterm"
    /\ UNCHANGED <<markers, procs, files, tpc, cfg, newpid, processes, reaped,
                   hstack, nsig, exitcode, mh, mainOther>>

\* line 291
MSigTerm ==
    /\ MainRuns /\ mpc = "m_sigterm"
    /\ handlers' = handlers \cup {"SIGTERM"}
    /\ mpc' = "m_threads"
    /\ UNCHANGED <<markers, procs, stop, files, tpc, cfg, newpid, processes, reaped,
                   hstack, nsig, exitcode, mh, mainOther>>

\* lines 293-300: one tail_file thread is started per log file
MThreads ==
    /\ MainRuns /\ mpc = "m_threads"
    /\ tpc' = [n \in Names |-> "w_exists"]
    /\ mpc' = "m_loop"
    /\ UNCHANGED <<markers, procs, stop, files, cfg, newpid, processes, reaped,
                   handlers, hstack, nsig, exitcode, mh, mainOther>>

\* line 303
MLoop ==
    /\ MainRuns /\ mpc = "m_loop"
    /\ mpc' = IF stop THEN "m_finally" ELSE "m_sleep"
    /\ UNCHANGED <<markers, procs, stop, files, tpc, cfg, newpid, processes, reaped,
                   handlers, hstack, nsig, exitcode, mh, mainOther>>

\* line 304
MSleep ==
    /\ MainRuns /\ mpc = "m_sleep"
    /\ mpc' = "m_loop"
    /\ UNCHANGED <<markers, procs, stop, files, tpc, cfg, newpid, processes, reaped,
                   handlers, hstack, nsig, exitcode, mh, mainOther>>

\* lines 305-306
MFinally ==
    /\ MainRuns /\ mpc = "m_finally"
    /\ stop' = TRUE
    /\ mpc' = "m_ret"
    /\ UNCHANGED <<markers, procs, files, tpc, cfg, newpid, processes, reaped,
                   handlers, hstack, nsig, exitcode, mh, mainOther>>

\* line 307
MReturn ==
    /\ MainRuns /\ mpc = "m_ret"
    /\ Exit(0)
    /\ UNCHANGED <<markers, procs, stop, files, tpc, cfg, newpid, processes, reaped,
                   handlers, hstack, nsig, mh, mainOther>>

\* an invocation of handle_signal at its first line: pc, its control point; i, the
\* index of the for loop it is in; ran, the indices whose poll() of line 287 was
\* None; kc, the indices it called proc.kill() for
F0 == [pc |-> "h_set", i |-> 1, ran |-> {}, kc |-> {}]

\* a signal the handler is installed for arrives: Python runs handle_signal in the
\* main thread, on top of whatever the main thread was running
SignalHandled ==
    /\ mpc # "exited"
    /\ nsig < MaxSignals
    /\ \E sig \in handlers : hstack' = Append(hstack, F0)
    /\ nsig' = nsig + 1
    /\ mh' = [mh EXCEPT !.handled = @ + 1]
    /\ UNCHANGED <<markers, procs, stop, files, tpc, cfg, mpc, newpid, processes,
                   reaped, handlers, exitcode, mainOther>>

\* a signal arrives that handle_signal is not installed for: SIGINT raises
\* KeyboardInterrupt in main, which nothing catches (status 130); SIGTERM kills the
\* supervisor (status 143)
SignalDefault ==
    /\ mpc # "exited"
    /\ nsig < MaxSignals
    /\ \E sig \in {"SIGINT", "SIGTERM"} \ handlers :
         Exit(IF sig = "SIGINT" THEN 130 ELSE 143)
    /\ nsig' = nsig + 1
    /\ mh' = [mh EXCEPT !.defaulted = TRUE]
    /\ UNCHANGED <<markers, procs, stop, files, tpc, cfg, newpid, processes,
                   reaped, handlers, hstack, mainOther>>

\* the innermost invocation of handle_signal
Top == hstack[Len(hstack)]

HandlerRuns == mpc # "exited" /\ hstack # <<>>

\* hstack with the innermost invocation changed to f
SetTop(f) == [hstack EXCEPT ![Len(hstack)] = f]

\* hstack with the innermost invocation returned
Pop == SubSeq(hstack, 1, Len(hstack) - 1)

\* Popen.poll() of process i is None: the child has not exited
Running(i) == ~reaped[i] /\ procs[processes[i]] = "alive"

\* `reaped` after Popen.poll() of process i: the exit of a child that has exited is
\* observed and its returncode set
Polled(i) == [reaped EXCEPT ![i] = @ \/ procs[processes[i]] = "dead"]

\* handle_signal flipping the flag instead of setting it
HSet_Toggle ==
    /\ HandlerRuns /\ Top.pc = "h_set"
    /\ stop' = ~stop
    /\ hstack' = SetTop([Top EXCEPT !.pc = IF processes = <<>> THEN "h_sleep" ELSE "h_term",
                                    !.i = 1])
    /\ UNCHANGED <<markers, procs, files, tpc, cfg, mpc, newpid, processes, reaped,
                   handlers, nsig, exitcode, mh, mainOther>>

\* line 282
HSet ==
    /\ HandlerRuns /\ Top.pc = "h_set"
    /\ stop' = TRUE
    /\ hstack' = SetTop([Top EXCEPT !.pc = IF processes = <<>> THEN "h_sleep" ELSE "h_term",
                                    !.i = 1])
    /\ UNCHANGED <<markers, procs, files, tpc, cfg, mpc, newpid, processes, reaped,
                   handlers, nsig, exitcode, mh, mainOther>>

\* lines 283-284: proc.terminate() polls, and sends SIGTERM unless the exit of the
\* child has been observed
HTerm ==
    /\ HandlerRuns /\ Top.pc = "h_term"
    /\ reaped' = Polled(Top.i)
    /\ mh' = [mh EXCEPT !.treq[Top.i] = @ + 1,
                        !.tsig[Top.i] = IF Running(Top.i) THEN @ + 1 ELSE @]
    /\ hstack' = SetTop(IF Top.i < Len(processes)
                        THEN [Top EXCEPT !.i = @ + 1]
                        ELSE [Top EXCEPT !.pc = "h_sleep"])
    /\ UNCHANGED <<markers, procs, stop, files, tpc, cfg, mpc, newpid, processes,
                   handlers, nsig, exitcode, mainOther>>

\* line 285
HSleep ==
    /\ HandlerRuns /\ Top.pc = "h_sleep"
    /\ hstack' = IF processes = <<>> THEN Pop
                 ELSE SetTop([Top EXCEPT !.pc = "h_poll", !.i = 1])
    /\ UNCHANGED <<markers, procs, stop, files, tpc, cfg, mpc, newpid, processes,
                   reaped, handlers, nsig, exitcode, mh, mainOther>>

\* handle_signal without the test of line 287: proc.kill() for every process
HPoll_NoCheck ==
    /\ HandlerRuns /\ Top.pc = "h_poll"
    /\ reaped' = Polled(Top.i)
    /\ hstack' = SetTop([Top EXCEPT !.pc = "h_kill",
                                    !.ran = IF Running(Top.i) THEN @ \cup {Top.i} ELSE @])
    /\ UNCHANGED <<markers, procs, stop, files, tpc, cfg, mpc, newpid, processes,
                   handlers, nsig, exitcode, mh, mainOther>>

\* lines 286-287
HPoll ==
    /\ HandlerRuns /\ Top.pc = "h_poll"
    /\ reaped' = Polled(Top.i)
    /\ hstack' = IF Running(Top.i)
                 THEN SetTop([Top EXCEPT !.pc = "h_kill", !.ran = @ \cup {Top.i}])
                 ELSE IF Top.i < Len(processes)
                      THEN SetTop([Top EXCEPT !.i = @ + 1])
                      ELSE Pop
    /\ UNCHANGED <<markers, procs, stop, files, tpc, cfg, mpc, newpid, processes,
                   handlers, nsig, exitcode, mh, mainOther>>

\* line 288: proc.kill() polls, and sends SIGKILL unless the exit of the child has
\* been observed
HKill ==
    /\ HandlerRuns /\ Top.pc = "h_kill"
    /\ reaped' = Polled(Top.i)
    /\ procs' = IF Running(Top.i) THEN [procs EXCEPT ![processes[Top.i]] = "dead"]
                ELSE procs
    /\ mh' = [mh EXCEPT !.kreq[Top.i] = @ + 1,
                        !.ksig[Top.i] = IF Running(Top.i) THEN @ + 1 ELSE @]
    /\ hstack' = IF Top.i < Len(processes)
                 THEN SetTop([Top EXCEPT !.pc = "h_poll", !.i = @ + 1,
                                         !.kc = @ \cup {Top.i}])
                 ELSE Pop
    /\ UNCHANGED <<markers, stop, files, tpc, cfg, mpc, newpid, processes,
                   handlers, nsig, exitcode, mainOther>>

\* a service exits (on its own, or because it was asked to)
ChildExit ==
    /\ mpc # "exited"
    /\ \E q \in Pids :
         /\ procs[q] = "alive"
         /\ procs' = [procs EXCEPT ![q] = "dead"]
    /\ UNCHANGED <<markers, stop, files, tpc, mainVars, mainOther>>

NextMain ==
    \/ MEnvLocal
    \/ MCfg1
    \/ MCfg2
    \/ MCfg3
    \/ MCfg4
    \/ MConvex
    \/ MConvexFail
    \/ SpOpen
    \/ SpPopen
    \/ SpPopenFail
    \/ SpWrite
    \/ SpAppend
    \/ MSigInt
    \/ MSigTerm
    \/ MThreads
    \/ MLoop
    \/ MSleep
    \/ MFinally
    \/ MReturn
    \/ SignalHandled
    \/ SignalDefault
    \/ HSet
    \/ HTerm
    \/ HSleep
    \/ HPoll
    \/ HKill
    \/ ChildExit

SpecMain == InitMain /\ [][NextMain]_vars

\* the steps of the main thread: main()'s own and those of handle_signal
StepMain ==
    \/ MEnvLocal \/ MCfg1 \/ MCfg2 \/ MCfg3 \/ MCfg4 \/ MConvex \/ SpOpen \/ SpPopen
    \/ SpWrite \/ SpAppend \/ MSigInt \/ MSigTerm \/ MThreads \/ MLoop \/ MSleep
    \/ MFinally \/ MReturn \/ HSet \/ HTerm \/ HSleep \/ HPoll \/ HKill

\* the interpreter keeps running the main thread
FairSpecMain == SpecMain /\ WF_vars(StepMain)

-----------------------------------------------------------------------------
(* main() from its cleanup phase on: lines 147-307 *)

\* control passes from the last kill_by_pattern call to line 160; the locals of
\* the cleanup calls are gone
MStart ==
    /\ cpc = "cl_done"
    /\ mpc = "exited" /\ exitcode = None
    /\ mpc' = "m_envlocal"
    /\ tokens' = <<>>
    /\ pid' = None
    /\ elapsed' = 0
    /\ g' = G0
    /\ UNCHANGED <<markers, procs, cpc, ci, exc, stop, tailVars, cfg, newpid, processes,
                   reaped, handlers, hstack, nsig, exitcode, mh>>

\* the services this run starts stay up until they are signalled
NextStart ==
    \/ KpExists
    \/ KpRead
    \/ TpProbe
    \/ TpTerm
    \/ TpLoop
    \/ TpPoll
    \/ TpSleep
    \/ TpKill
    \/ KpUnlink
    \/ BpPgrep
    \/ BpToken
    \/ ClNext
    \/ ProcExit
    \/ MStart
    \/ MEnvLocal
    \/ MCfg1
    \/ MCfg2
    \/ MCfg3
    \/ MCfg4
    \/ MConvex
    \/ MConvexFail
    \/ SpOpen
    \/ SpPopen
    \/ SpPopenFail
    \/ SpWrite
    \/ SpAppend
    \/ MSigInt
    \/ MSigTerm
    \/ MThreads
    \/ MLoop
    \/ MSleep
    \/ MFinally
    \/ MReturn
    \/ SignalHandled
    \/ SignalDefault
    \/ HSet
    \/ HTerm
    \/ HSleep
    \/ HPoll
    \/ HKill

\* a run of main() with a complete configuration, from line 147
SpecStart == InitTerm /\ [][NextStart]_vars

-----------------------------------------------------------------------------
(* main() from line 293 on, together with the tail_file threads it starts *)

\* the identifiers of the three services, in the order main() started them
RunPids == <<7, 12, 305>>

\* main() at line 293 in a run with a complete configuration: the three services
\* are started and running, their markers and log files written, handle_signal
\* installed, no signal delivered yet
InitRun ==
    /\ markers = [n \in Names |-> Str(RunPids[CHOOSE i \in 1..3 : Services[i] = n])]
    /\ procs = [q \in Pids |-> "alive"]
    /\ cpc = "cl_done"
    /\ ci = 1
    /\ tokens = <<>>
    /\ pid = None
    /\ elapsed = 0
    /\ exc = "none"
    /\ g = G0
    /\ stop = FALSE
    /\ files = [n \in Names |-> <<>>]
    /\ tpc = [n \in Names |-> "done"]
    /\ pos = [n \in Names |-> None]
    /\ line = [n \in Names |-> <<>>]
    /\ out = [n \in Names |-> <<>>]
    /\ th = [n \in Names |-> TH0]
    /\ appended = 0
    /\ cfg = CfgOk
    /\ mpc = "m_threads"
    /\ newpid = <<305>>
    /\ processes = RunPids
    /\ reaped = <<FALSE, FALSE, FALSE>>
    /\ handlers = {"SIGINT", "SIGTERM"}
    /\ hstack = <<>>
    /\ nsig = 0
    /\ exitcode = None
    /\ mh = [MH0 EXCEPT !.wrote = Names, !.started = 3]

\* the threads are daemon threads: they run while the interpreter does
ThreadsRun == mpc \notin {"m_threads", "exited"}

\* the services stay up until they are signalled and write nothing to their logs
\* meanwhile; the tailers of Tailers are scheduled
NextRun ==
    \/ MThreads
    \/ MLoop
    \/ MSleep
    \/ MFinally
    \/ MReturn
    \/ SignalHandled
    \/ HSet
    \/ HTerm
    \/ HSleep
    \/ HPoll
    \/ HKill
    \/ \E n \in Tailers : ThreadsRun /\ TWaitExists(n)
    \/ \E n \in Tailers : ThreadsRun /\ TCheck(n)
    \/ \E n \in Tailers : ThreadsRun /\ TOpen(n)
    \/ \E n \in Tailers : ThreadsRun /\ TLoop(n)
    \/ \E n \in Tailers : ThreadsRun /\ TRead(n)
    \/ \E n \in Tailers : ThreadsRun /\ TIdle(n)

SpecRun == InitRun /\ [][NextRun]_vars

-----------------------------------------------------------------------------
(* Claims about terminate_pid and kill_pidfile *)

\* C1: within one call of terminate_pid the signals sent are none, SIGTERM, or
\* SIGTERM then SIGKILL; and SIGKILL is sent only after the first probe found the
\* target alive, the timeout has fully elapsed, and no poll found the target gone.
EscalationOrder ==
    /\ g.sent \in {<<>>, <<"SIGTERM">>, <<"SIGTERM", "SIGKILL">>}
    /\ g.sent = <<"SIGTERM", "SIGKILL">> =>
         /\ g.probe = "alive"
         /\ elapsed >= Timeout
         /\ ~g.sawDead

EscalationReached == g.sent = <<"SIGTERM", "SIGKILL">> /\ cpc = ReturnPoint

\* C2: a call of terminate_pid on an identifier that is not alive is a single step:
\* it returns at once to its caller, has sent no signal, has not entered the wait
\* loop, and leaves the process table as it was.
NonAliveNoop ==
    [][ (cpc = "tp_probe" /\ ~pid_exists(pid[1]) /\ cpc' # cpc) =>
          /\ cpc' = ReturnPoint
          /\ procs' = procs
          /\ g'.sent = <<>>
          /\ ~g'.looped ]_vars

NonAliveReturned == g.probe = "dead" /\ cpc = ReturnPoint /\ g.sent = <<>>

\* C3: when kill_pidfile was called on an existing marker file and control has
\* left it (by return or by exception), no marker file exists at its path.
MarkerAlwaysCleared ==
    (ci <= NKeys /\ g.existed /\ cpc \in {"cl_next", "cl_raised"}) =>
        markers[Key] = NoFile

\* C4: kill_pidfile on a marker that holds the identifier of a process that is not
\* alive sends no signal, surfaces no error, and has deleted the marker when it
\* returns.
StaleRecord ==
    g.stale =>
        /\ g.sent = <<>>
        /\ exc = "none"
        /\ cpc \notin {"cl_raised", "tp_term", "tp_loop", "tp_poll", "tp_sleep", "tp_kill"}
        /\ cpc = "cl_next" => markers[Key] = NoFile

StaleRecordCleared == g.stale /\ cpc = "cl_next" /\ markers[Key] = NoFile

\* C8: terminate_pid sends no SIGKILL while the elapsed time is below the timeout;
\* at the timeout a target that is still alive is sent SIGKILL, is dead after it,
\* and the call returns; once SIGTERM was sent to a process the call raises
\* nothing and the process is not alive when the call has returned; and every
\* call ends.
ForcedKillBound ==
    /\ [](cpc \in {"tp_poll", "tp_sleep"} => elapsed < Timeout /\ g.sent = <<"SIGTERM">>)
    /\ [](g.sent = <<"SIGTERM", "SIGKILL">> => elapsed >= Timeout)
    /\ [][ (cpc = "tp_kill" /\ pid[1] \in Pids /\ procs[pid[1]] = "alive" /\ cpc' # cpc) =>
             /\ g'.sent = <<"SIGTERM", "SIGKILL">>
             /\ procs'[pid[1]] = "dead"
             /\ cpc' = ReturnPoint ]_vars
    /\ []((g.sent # <<>> /\ pid[1] > 0) =>
             /\ cpc # "cl_raised"
             /\ cpc = ReturnPoint => NotAlive(pid[1]))
    /\ (cpc = "tp_probe") ~> (cpc \in {ReturnPoint, "cl_raised"})

ForcedKillReached ==
    /\ cpc = ReturnPoint
    /\ pid[1] > 0
    /\ g.sent = <<"SIGTERM", "SIGKILL">>
    /\ ~g.sawDead
    /\ NotAlive(pid[1])

-----------------------------------------------------------------------------
(* Claims about tail_file *)

\* the content appended to the file of n since its tailer sought to the end
Fresh(n) ==
    IF pos[n] = None THEN <<>>
    ELSE SubSeq(files[n], th[n].base + 1, Len(files[n]))

IsPrefix(a, b) == Len(a) <= Len(b) /\ a = SubSeq(b, 1, Len(a))

\* C5: for every tailer, the texts it has written, joined in the order written, are
\* a prefix of the content appended to its file after it sought to the end (nothing
\* older is written, nothing is written twice, skipped or out of order); and, the
\* threads being scheduled, time and again the stop flag is set or everything
\* appended so far has been written.
ReplayFree ==
    /\ [](\A n \in Tailers : IsPrefix(Concat(out[n]), Fresh(n)))
    /\ \A n \in Tailers :
         []<>(stop \/ pos[n] = None \/ Concat(out[n]) = Fresh(n))

ReplayFreeReached ==
    \E n \in Tailers :
        /\ th[n].base > 0
        /\ Len(out[n]) = 2
        /\ Concat(out[n]) = Fresh(n)
        /\ ~stop

\* C7: after the stop flag is set every tailer writes at most one more line, and
\* after that line it is at the loop test or has returned; a tailer that was
\* waiting for its file when the flag was set never opens the file and writes
\* nothing; and, the threads being scheduled, once the flag is set every tailer
\* returns.
ShutdownLatency ==
    /\ [](\A n \in Tailers :
            /\ th[n].after <= 1
            /\ th[n].after = 1 => tpc[n] \in {"loop", "done"}
            /\ th[n].waiting =>
                 /\ pos[n] = None
                 /\ out[n] = <<>>
                 /\ tpc[n] \in {"w_exists", "w_stop", "w_sleep", "chk", "done"})
    /\ stop ~> (\A n \in Tailers : tpc[n] = "done")

ShutdownLatencyReached ==
    \E n, m \in Tailers :
        /\ th[n].after = 1
        /\ tpc[n] = "done"
        /\ th[m].waiting
        /\ tpc[m] = "done"

-----------------------------------------------------------------------------
(* Claims about main() *)

\* every invocation of handle_signal that is running
Frames == {hstack[k] : k \in 1..Len(hstack)}

Children == 1..Len(processes)

MarkerRecorded ==
    /\ mpc = "sp_append" =>
         /\ markers[Svc] = Str(newpid[1])
         /\ IsInt(Strip(markers[Svc]))
         /\ ParseInt(Strip(markers[Svc])) = newpid[1]
         /\ procs[newpid[1]] = "alive" \/ procs[newpid[1]] = "dead"
    /\ \A i \in Children :
         /\ markers[Services[i]] = Str(processes[i])
         /\ ParseInt(Strip(markers[Services[i]])) = processes[i]

MarkerReplaced ==
    /\ mpc = "sp_append"
    /\ Svc = "website"
    /\ mh.prev = <<"9", "9", "9", "\n">>
    /\ newpid = <<305>>
    /\ markers["website"] = <<"3", "0", "5">>

\* a required key, the website env file or node0.yaml is absent
ConfigMissing ==
    \/ cfg.envfile = "none"
    \/ cfg.vite_identity = "" \/ cfg.convex_url = "" \/ cfg.convex_admin_key = ""
    \/ cfg.service_token = "" \/ cfg.stripe_secret = "" \/ cfg.stripe_webhook = ""
    \/ ~cfg.node0

\* C10: with a required key or file absent, main never gets past validation:
\* start_process is never called, no process is spawned, no marker is written, and
\* when the supervisor has exited its status is not 0.
FailFast ==
    ConfigMissing =>
        /\ mpc \in {"m_envlocal", "m_cfg1", "m_cfg2", "m_cfg3", "m_cfg4", "exited"}
        /\ mh.started = 0
        /\ processes = <<>>
        /\ \A q \in Pids : procs[q] = "dead"
        /\ mh.wrote = {}
        /\ mpc = "exited" => exitcode # None /\ exitcode # <<0>>

FailFastReached ==
    /\ cfg.stripe_webhook = ""
    /\ cfg.vite_identity = "v" /\ cfg.convex_url = "v" /\ cfg.convex_admin_key = "v"
    /\ cfg.service_token = "v" /\ cfg.stripe_secret = "v" /\ cfg.node0
    /\ mpc = "exited"
    /\ exitcode = <<1>>
    /\ ~mh.defaulted

\* C11: a signal that arrives after handle_signal has been triggered changes
\* nothing for the children: no child is sent SIGTERM more than once, none is
\* sent SIGKILL more than once, and proc.terminate() and proc.kill() are called
\* at most once per child.
IdempotentTrigger ==
    \A i \in Children :
        /\ mh.tsig[i] <= 1
        /\ mh.ksig[i] <= 1
        /\ mh.treq[i] <= 1
        /\ mh.kreq[i] <= 1

\* the identifiers of the processes this run has spawned
Spawned ==
    {processes[i] : i \in Children} \cup (IF newpid = None THEN {} ELSE {newpid[1]})

\* C19: when the supervisor has exited, every process it spawned that is still
\* running has been sent SIGTERM by it.
NoOrphanOnExit ==
    mpc = "exited" =>
        \A q \in Spawned :
            procs[q] = "alive" =>
                \E i \in Children : processes[i] = q /\ mh.tsig[i] >= 1

-----------------------------------------------------------------------------
(* Claims about main() and its tail_file threads together *)

\* C12: no step clears the stop flag once it is set; a tailer that tests the flag
\* and finds it set (line 125, line 129) returns, and a tailer that has returned
\* stays returned; main's wait loop, testing the flag and finding it set (line
\* 303), goes on to the finally block, and from there main never comes back to
\* the loop.
StopFinal ==
    /\ [][stop => stop']_vars
    /\ [][\A n \in Tailers :
            (stop /\ tpc[n] \in {"w_stop", "chk", "loop"} /\ tpc'[n] # tpc[n]) =>
                tpc'[n] \in {"chk", "done"} /\ tpc'[n] # tpc[n]]_vars
    /\ [][\A n \in Tailers :
            (mpc # "m_threads" /\ tpc[n] = "done") => tpc'[n] = "done"]_vars
    /\ [][(stop /\ mpc = "m_loop" /\ mpc' # mpc) => mpc' = "m_finally"]_vars
    /\ [][(mpc \in {"m_finally", "m_ret", "exited"}) =>
            (mpc' \in {"m_finally", "m_ret", "exited"})]_vars

StopFinalReached ==
    /\ stop
    /\ mh.handled = 2
    /\ \A n \in Tailers : tpc[n] = "done" /\ pos[n] # None
    /\ mpc = "exited"
    /\ exitcode = <<0>>

\* C16: when main() has returned, no tailer is still inside the with block of
\* lines 127-135, its log file open.
TailersJoined ==
    mpc = "exited" => \A n \in Tailers : tpc[n] \notin {"loop", "read", "emit", "idle"}

-----------------------------------------------------------------------------
(* Claims about the cleanup phase *)

\* the control points of terminate_pid
TpPoints == {"tp_probe", "tp_term", "tp_loop", "tp_poll", "tp_sleep", "tp_kill"}

\* C17: a marker whose content int() rejects: kill_pidfile never enters
\* terminate_pid for it (no probe, no signal), no ValueError leaves it, and when
\* it has returned the marker file is gone.
NonNumericMarker ==
    /\ exc # "ValueError"
    /\ (ci <= NKeys /\ cpc \in TpPoints) =>
           markers[Key] # NoFile /\ IsInt(Strip(markers[Key]))
    /\ (ci <= NKeys /\ cpc = "kp_unlink" /\ ~IsInt(Strip(markers[Key]))) =>
           pid = None /\ g.probe = "none" /\ g.sent = <<>> /\ exc = "none"
    /\ (ci <= NKeys /\ cpc = "cl_next" /\ g.existed /\ pid = None) =>
           /\ markers[Key] = NoFile
           /\ g.probe = "none" /\ g.sent = <<>> /\ exc = "none"

NonNumericMarkerCleared ==
    /\ cpc = "cl_next"
    /\ Key = "network"
    /\ g.existed
    /\ pid = None
    /\ markers[Key] = NoFile
    /\ procs = [q \in Pids |-> "alive"]

\* C13: a pgrep that cannot be run, or that reports failure, makes kill_by_pattern
\* return quietly: no exception leaves it, and cleanup goes on with the next
\* pattern.
ListingTolerated ==
    ci > NKeys => (cpc # "cl_raised" \/ exc # "FileNotFoundError")

\* C14: no error met while signalling a previous instance leaves kill_pidfile or
\* kill_by_pattern: neither ProcessLookupError (the target vanished) nor
\* PermissionError (signalling it is denied) propagates out of main.
TerminationErrorsSwallowed ==
    /\ exc # "ProcessLookupError"
    /\ exc # "PermissionError"

\* C20: whatever the marker files hold and pgrep prints, terminate_pid is only
\* ever entered, and so os.kill only ever called, with an identifier greater
\* than zero.
PositiveTargetsOnly ==
    cpc \in TpPoints => pid[1] > 0

-----------------------------------------------------------------------------
(* Further claims about tail_file *)

\* C15: every write of a tailer is its own prefix followed by exactly one complete
\* line: the text is not empty, ends with a newline and holds no other newline.
CompleteLines ==
    \A n \in Tailers : \A k \in 1..Len(out[n]) :
        /\ out[n][k].prefix = n
        /\ out[n][k].text # <<>>
        /\ Newlines(out[n][k].text) = {Len(out[n][k].text)}

-----------------------------------------------------------------------------
(* Claims about the whole run *)

\* C18: start_process is called, and anything of main() from line 160 on runs,
\* only when cleanup has returned from kill_pidfile for every key and
\* kill_by_pattern for every pattern; cleanup once done stays done; and every
\* signal cleanup sends is sent while this run has spawned nothing.
StartupOrder ==
    /\ []((mh.started > 0 \/ processes # <<>> \/ newpid # None \/ mpc # "exited") =>
             cpc = "cl_done")
    /\ [](cpc = "cl_done" => ci = NSteps + 1)
    /\ [][cpc = "cl_done" => cpc' = "cl_done"]_vars
    /\ [][Len(g'.sent) > Len(g.sent) =>
             mh.started = 0 /\ processes = <<>> /\ newpid = None]_vars

StartupOrderReached ==
    /\ ci = NSteps + 1
    /\ cpc = "cl_done"
    /\ mpc = "m_threads"
    /\ processes = RunPids
    /\ \A n \in Names : markers[n] # NoFile

=============================================================================
